---- MODULE Spec2Model ----
(***************************************************************************)
(* The conversational exchange engine of kagi-mcp (the "assistant" tool):  *)
(* the process-wide thread identifier, the request builder, the brace      *)
(* balancing extractor of the streaming response, JSON.parse of the        *)
(* extracted documents and the reply formatter; and the search tool with  *)
(* its concurrently started searches, their timeouts and its report.       *)
(*                                                                         *)
(* Texts are sequences of tokens.  A token is either one of the characters *)
(* the code dispatches on ({ } " \ : , space newline) or a maximal run of  *)
(* other characters (a word, a marker, a markup tag), so that indices,     *)
(* lastIndexOf, substring and the character loop of extractJson act on     *)
(* tokens exactly as the code acts on characters.                          *)
(***************************************************************************)
EXTENDS Integers, Sequences, FiniteSets, TLC

VARIABLES threadId, calls, uuidCount, last,
          xText, xMarker, xPart, xStart, xScan, xPc,
          searchCall, searchReturn

vars == <<threadId, calls, uuidCount, last, xText, xMarker, xPart, xStart, xScan, xPc,
          searchCall, searchReturn>>
searchVars == <<searchCall, searchReturn>>
exchangeVars == <<threadId, calls, uuidCount, last>>
extractVars == <<xText, xMarker, xPart, xStart, xScan, xPc>>

(***************************************************************************)
(* Tokens                                                                  *)
(***************************************************************************)
LBRACE == "{"
RBRACE == "}"
QUOTE == "\""
BSLASH == "\\"
COLON == ":"
COMMA == ","
SP == " "
NL == "\n"
CR == "\r"
TAB == "\t"
THREAD_MARKER == "thread.json:"
MESSAGE_MARKER == "new_message.json:"
BRANCH_ID == "00000000-0000-4000-0000-000000000000"

\* What JSON, String.prototype.trim and the regular expression class \s skip.
Whitespace == {SP, NL, CR, TAB}
\* What the regular expression dot does not match.
LineTerminators == {NL, CR}

(***************************************************************************)
(* JavaScript values: null, undefined, strings (token sequences) and       *)
(* objects (the sequence of their members, in source order).               *)
(***************************************************************************)
JsNull == [t |-> "null", s |-> <<>>, m |-> <<>>]
JsUndefined == [t |-> "undefined", s |-> <<>>, m |-> <<>>]
JsStr(toks) == [t |-> "str", s |-> toks, m |-> <<>>]
JsObj(members) == [t |-> "obj", s |-> <<>>, m |-> members]

\* ToBoolean of a value: null, undefined and "" are falsy.
Truthy(v) == v.t = "obj" \/ (v.t = "str" /\ v.s # <<>>)

(***************************************************************************)
(* String.prototype helpers on token sequences                             *)
(***************************************************************************)
\* text.lastIndexOf(marker): 0 stands for -1.
LastIndexOf(text, tok) ==
    LET hits == {i \in 1..Len(text) : text[i] = tok}
    IN IF hits = {} THEN 0 ELSE CHOOSE i \in hits : \A j \in hits : j <= i

\* text.indexOf(tok): 0 stands for -1.
IndexOf(text, tok) ==
    LET hits == {i \in 1..Len(text) : text[i] = tok}
    IN IF hits = {} THEN 0 ELSE CHOOSE i \in hits : \A j \in hits : i <= j

\* text.trim()
Trim(text) ==
    LET keep == {i \in 1..Len(text) : text[i] \notin Whitespace}
    IN IF keep = {} THEN <<>>
       ELSE SubSeq(text, CHOOSE i \in keep : \A j \in keep : i <= j,
                         CHOOSE i \in keep : \A j \in keep : j <= i)

(***************************************************************************)
(* extractJson (part_000:131-173)                                          *)
(***************************************************************************)
NotFound == [found |-> FALSE, json |-> <<>>]
Found(toks) == [found |-> TRUE, json |-> toks]

\* The text after the last marker, trimmed (lines 132-138); <<>> if no marker.
LastPart(text, marker) ==
    LET markerPos == LastIndexOf(text, marker)
    IN Trim(SubSeq(text, markerPos + 1, Len(text)))

\* The loop state at line 145-148, positioned on the first "{".
ScanInit(start) ==
    [i |-> start, count |-> 0, inString |-> FALSE, escape |-> FALSE, ret |-> FALSE]

\* One iteration of the for loop (lines 150-170) on lastPart[st.i].
ScanStep(lastPart, st) ==
    LET char == lastPart[st.i] IN
    IF ~st.inString
    THEN IF char = LBRACE
         THEN [st EXCEPT !.i = @ + 1, !.count = @ + 1, !.escape = FALSE]
         ELSE IF char = RBRACE
              THEN IF st.count - 1 = 0
                   THEN [st EXCEPT !.count = 0, !.ret = TRUE]
                   ELSE [st EXCEPT !.i = @ + 1, !.count = @ - 1, !.escape = FALSE]
              ELSE [st EXCEPT !.i = @ + 1, !.escape = FALSE]
    ELSE IF char = BSLASH /\ ~st.escape
         THEN [st EXCEPT !.i = @ + 1, !.escape = TRUE]
         ELSE IF char = QUOTE /\ ~st.escape
              THEN [st EXCEPT !.i = @ + 1, !.inString = ~@, !.escape = FALSE]
              ELSE [st EXCEPT !.i = @ + 1, !.escape = FALSE]

RECURSIVE ScanFrom(_, _, _)
ScanFrom(lastPart, start, st) ==
    IF st.ret THEN Found(SubSeq(lastPart, start, st.i))
    ELSE IF st.i > Len(lastPart) THEN NotFound
    ELSE ScanFrom(lastPart, start, ScanStep(lastPart, st))

extractJson(text, marker) ==
    IF LastIndexOf(text, marker) = 0 THEN NotFound
    ELSE LET lastPart == LastPart(text, marker)
             start == IndexOf(lastPart, LBRACE)
         IN IF start = 0 THEN NotFound
            ELSE ScanFrom(lastPart, start, ScanInit(start))

(***************************************************************************)
(* JSON.parse (the ECMAScript built-in the code calls at lines 305, 322)   *)
(* on the token alphabet: objects whose members are strings or objects.    *)
(* A word token outside a string literal is no JSON literal, so it fails.  *)
(***************************************************************************)
ParseFail == [ok |-> FALSE, next |-> 0, val |-> JsUndefined]
ParseOk(next, val) == [ok |-> TRUE, next |-> next, val |-> val]

\* Words of the alphabet whose first character is a JSON escape letter
\* (b f n r t), and what the two-character escape plus the rest decodes to.
EscapableWords == {"noise", "reply", THREAD_MARKER, MESSAGE_MARKER}
DecodeEscapedWord(w) ==
    CASE w = "noise" -> <<NL, "oise">>
      [] w = "reply" -> <<CR, "eply">>
      [] w = THREAD_MARKER -> <<TAB, "hread.json:">>
      [] w = MESSAGE_MARKER -> <<NL, "ew_message.json:">>

RECURSIVE SkipWs(_, _)
SkipWs(s, i) ==
    IF i <= Len(s) /\ s[i] \in Whitespace THEN SkipWs(s, i + 1) ELSE i

\* The body of a string literal from position j (after the opening quote).
RECURSIVE ParseStringBody(_, _, _)
ParseStringBody(s, j, acc) ==
    IF j > Len(s) THEN ParseFail
    ELSE IF s[j] = QUOTE THEN ParseOk(j + 1, JsStr(acc))
    ELSE IF s[j] \in {NL, CR, TAB} THEN ParseFail
    ELSE IF s[j] = BSLASH
         THEN IF j + 1 > Len(s) THEN ParseFail
              ELSE IF s[j + 1] \in {QUOTE, BSLASH}
                   THEN ParseStringBody(s, j + 2, Append(acc, s[j + 1]))
              ELSE IF s[j + 1] \in EscapableWords
                   THEN ParseStringBody(s, j + 2,
                                        acc \o DecodeEscapedWord(s[j + 1]))
              ELSE ParseFail
    ELSE ParseStringBody(s, j + 1, Append(acc, s[j]))

RECURSIVE ParseValue(_, _)
RECURSIVE ParseMembers(_, _, _)

\* Members of an object from position i (a key is expected there).
ParseMembers(s, i, acc) ==
    LET k == SkipWs(s, i) IN
    IF k > Len(s) \/ s[k] # QUOTE THEN ParseFail
    ELSE LET key == ParseStringBody(s, k + 1, <<>>) IN
         IF ~key.ok THEN ParseFail
         ELSE LET c == SkipWs(s, key.next) IN
              IF c > Len(s) \/ s[c] # COLON THEN ParseFail
              ELSE LET v == ParseValue(s, c + 1) IN
                   IF ~v.ok THEN ParseFail
                   ELSE LET e == SkipWs(s, v.next)
                            acc2 == Append(acc, <<key.val.s, v.val>>)
                        IN IF e > Len(s) THEN ParseFail
                           ELSE IF s[e] = RBRACE THEN ParseOk(e + 1, JsObj(acc2))
                           ELSE IF s[e] = COMMA THEN ParseMembers(s, e + 1, acc2)
                           ELSE ParseFail

ParseValue(s, i) ==
    LET k == SkipWs(s, i) IN
    IF k > Len(s) THEN ParseFail
    ELSE IF s[k] = QUOTE THEN ParseStringBody(s, k + 1, <<>>)
    ELSE IF s[k] = LBRACE
         THEN LET b == SkipWs(s, k + 1) IN
              IF b <= Len(s) /\ s[b] = RBRACE THEN ParseOk(b + 1, JsObj(<<>>))
              ELSE ParseMembers(s, k + 1, <<>>)
    ELSE ParseFail

\* JSON.parse(text): [ok, val]; ok = FALSE stands for the SyntaxError thrown.
JsonParse(text) ==
    LET v == ParseValue(text, 1) IN
    IF v.ok /\ SkipWs(text, v.next) = Len(text) + 1
    THEN [ok |-> TRUE, val |-> v.val]
    ELSE [ok |-> FALSE, val |-> JsUndefined]

\* obj.key for a parsed value: the last member of that name, else undefined.
GetProp(v, key) ==
    LET hits == {i \in 1..Len(v.m) : v.m[i][1] = <<key>>}
    IN IF v.t # "obj" \/ hits = {} THEN JsUndefined
       ELSE v.m[CHOOSE i \in hits : \A j \in hits : j <= i][2]

(***************************************************************************)
(* Reply formatter (part_000:56-121).  Markup tokens are whole tags        *)
(* ("<p>", "</li>"), entities ("&lt;"), words and whitespace; a tag with   *)
(* an attribute is the run  "<div class=" " codehilite " ">"  the JSON     *)
(* string decodes to.                                                      *)
(***************************************************************************)
HOpen == {"<h1>", "<h2>", "<h3>", "<h4>", "<h5>", "<h6>"}
HClose == {"</h1>", "</h2>", "</h3>", "</h4>", "</h5>", "</h6>"}
\* '#'.repeat(parseInt(level)) + ' '
HashesFor(tag) ==
    CASE tag = "<h1>" -> <<"#", SP>>
      [] tag = "<h2>" -> <<"##", SP>>
      [] tag = "<h3>" -> <<"###", SP>>
      [] tag = "<h4>" -> <<"####", SP>>
      [] tag = "<h5>" -> <<"#####", SP>>
      [] tag = "<h6>" -> <<"######", SP>>
BrTags == {"<br>", "<br/>", "<br />"}
\* Tokens that are a complete tag, matched by /<[^>]+>/ on their own.
TagTokens ==
    HOpen \cup HClose \cup BrTags \cup
    {"<p>", "</p>", "<strong>", "</strong>", "<em>", "</em>", "<code>", "</code>",
     "<ol>", "</ol>", "<ul>", "</ul>", "<li>", "</li>", "<div>", "</div>",
     "<span>", "</span>", "<pre>", "</pre>"}
\* The start of a tag that carries an attribute, and the ">" that ends it.
TagStarts == {"<div class="}
GT == ">"
\* A TLA+ string holds no backquote: these stand for one and for three of them.
BACKTICK == "BACKTICK"
FENCE == "FENCE"
CodeWrapper == <<"<div class=", QUOTE, "codehilite", QUOTE, GT>>
CodeOpen == <<"<pre>", "<span>", "</span>", "<code>">>
CodeClose == <<"</code>", "</pre>", "</div>">>

\* Whether the tokens of pat stand at position i of s.
At(s, i, pat) ==
    /\ i >= 1
    /\ i + Len(pat) - 1 <= Len(s)
    /\ SubSeq(s, i, i + Len(pat) - 1) = pat

\* /OPEN(.*?)CLOSE/ at position i: the index of the nearest closing token with
\* no line terminator before it, 0 if the pattern does not match at i.
MatchEnd(s, i, opens, closes) ==
    IF s[i] \notin opens THEN 0
    ELSE LET ends == {j \in (i + 1)..Len(s) :
                         /\ s[j] \in closes
                         /\ \A k \in (i + 1)..(j - 1) : s[k] \notin LineTerminators}
         IN IF ends = {} THEN 0 ELSE CHOOSE j \in ends : \A k \in ends : j <= k

\* s.replace(/OPEN(.*?)CLOSE/g, pre(OPEN) + '$1' + post), from position i on.
RECURSIVE ReplacePair(_, _, _, _, _, _)
ReplacePair(s, i, opens, closes, pre, post) ==
    IF i > Len(s) THEN <<>>
    ELSE LET j == MatchEnd(s, i, opens, closes) IN
         IF j = 0 THEN <<s[i]>> \o ReplacePair(s, i + 1, opens, closes, pre, post)
         ELSE pre[s[i]] \o SubSeq(s, i + 1, j - 1) \o post
              \o ReplacePair(s, j + 1, opens, closes, pre, post)

\* s.replace(/tok/g, repl) for single tokens.
RECURSIVE ReplaceTokens(_, _, _)
ReplaceTokens(s, toks, repl) ==
    IF s = <<>> THEN <<>>
    ELSE (IF Head(s) \in toks THEN repl ELSE <<Head(s)>>)
         \o ReplaceTokens(Tail(s), toks, repl)

\* s.replace(/pat/g, '') for a run of tokens.
RECURSIVE RemoveRun(_, _, _)
RemoveRun(s, i, pat) ==
    IF i > Len(s) THEN <<>>
    ELSE IF At(s, i, pat) THEN RemoveRun(s, i + Len(pat), pat)
    ELSE <<s[i]>> \o RemoveRun(s, i + 1, pat)

\* Line 64: the code block wrapper, with the s flag (dot matches newlines).
CodeBlockMatch(s, i) ==
    IF ~At(s, i, CodeWrapper) THEN <<0, 0>>
    ELSE LET from == i + Len(CodeWrapper)
             as == {a \in from..Len(s) : At(s, a, CodeOpen)}
         IN IF as = {} THEN <<0, 0>>
            ELSE LET a == CHOOSE x \in as : \A y \in as : x <= y
                     bs == {b \in (a + Len(CodeOpen))..Len(s) : At(s, b, CodeClose)}
                 IN IF bs = {} THEN <<0, 0>>
                    ELSE <<a, CHOOSE x \in bs : \A y \in bs : x <= y>>

RECURSIVE ReplaceCodeBlocks(_, _)
ReplaceCodeBlocks(s, i) ==
    IF i > Len(s) THEN <<>>
    ELSE LET m == CodeBlockMatch(s, i) IN
         IF m[1] = 0 THEN <<s[i]>> \o ReplaceCodeBlocks(s, i + 1)
         ELSE <<FENCE, NL>> \o SubSeq(s, m[1] + Len(CodeOpen), m[2] - 1)
              \o <<NL, FENCE, NL>> \o ReplaceCodeBlocks(s, m[2] + Len(CodeClose))

\* s.replace(/<[^>]+>/g, '')
TagEndAt(s, i) ==
    IF s[i] \in TagTokens THEN i
    ELSE IF s[i] \in TagStarts
         THEN LET ends == {j \in (i + 1)..Len(s) : s[j] = GT \/ s[j] \in TagTokens}
              IN IF ends = {} THEN 0 ELSE CHOOSE j \in ends : \A k \in ends : j <= k
         ELSE 0

RECURSIVE StripTags(_, _)
StripTags(s, i) ==
    IF i > Len(s) THEN <<>>
    ELSE LET j == TagEndAt(s, i) IN
         IF j = 0 THEN <<s[i]>> \o StripTags(s, i + 1) ELSE StripTags(s, j + 1)

\* The end of the run of tokens of set ws that starts at i (i - 1 if none).
RECURSIVE RunEnd(_, _, _)
RunEnd(s, i, ws) ==
    IF i <= Len(s) /\ s[i] \in ws THEN RunEnd(s, i + 1, ws) ELSE i - 1

\* s.replace(/\n{3,}/g, '\n\n')
RECURSIVE CollapseNewlines(_, _)
CollapseNewlines(s, i) ==
    IF i > Len(s) THEN <<>>
    ELSE LET e == RunEnd(s, i, {NL}) IN
         IF e - i + 1 >= 3 THEN <<NL, NL>> \o CollapseNewlines(s, e + 1)
         ELSE <<s[i]>> \o CollapseNewlines(s, i + 1)

\* s.replace(/\s+/g, ' ')
RECURSIVE CollapseWhitespace(_, _)
CollapseWhitespace(s, i) ==
    IF i > Len(s) THEN <<>>
    ELSE LET e == RunEnd(s, i, Whitespace) IN
         IF e >= i THEN <<SP>> \o CollapseWhitespace(s, e + 1)
         ELSE <<s[i]>> \o CollapseWhitespace(s, i + 1)

DecodeEntities(s) ==
    LET a == ReplaceTokens(s, {"&lt;"}, <<"<">>)
        b == ReplaceTokens(a, {"&gt;"}, <<GT>>)
        c == ReplaceTokens(b, {"&quot;"}, <<QUOTE>>)
        d == ReplaceTokens(c, {"&#x27;"}, <<"'">>)
    IN ReplaceTokens(d, {"&amp;"}, <<"&">>)

Const(toks, v) == [x \in toks |-> v]

htmlToMarkdown(html) ==
    LET r1 == ReplacePair(html, 1, HOpen, HClose,
                          [x \in HOpen |-> HashesFor(x)], <<NL, NL>>)
        r2 == ReplacePair(r1, 1, {"<strong>"}, {"</strong>"},
                          Const({"<strong>"}, <<"**">>), <<"**">>)
        r3 == ReplacePair(r2, 1, {"<em>"}, {"</em>"}, Const({"<em>"}, <<"*">>), <<"*">>)
        r4 == ReplaceCodeBlocks(r3, 1)
        r5 == ReplacePair(r4, 1, {"<code>"}, {"</code>"},
                          Const({"<code>"}, <<BACKTICK>>), <<BACKTICK>>)
        r6 == ReplaceTokens(ReplaceTokens(r5, {"<ol>"}, <<>>), {"</ol>"}, <<NL>>)
        r7 == ReplaceTokens(ReplaceTokens(r6, {"<ul>"}, <<>>), {"</ul>"}, <<NL>>)
        r8 == ReplacePair(r7, 1, {"<li>"}, {"</li>"}, Const({"<li>"}, <<"-", SP>>), <<NL>>)
        r9 == RemoveRun(r8, 1, <<"<p>", "</p>">>)
        r10 == ReplacePair(r9, 1, {"<p>"}, {"</p>"}, Const({"<p>"}, <<>>), <<NL, NL>>)
        r11 == ReplaceTokens(r10, BrTags, <<NL>>)
        r12 == StripTags(r11, 1)
        r13 == DecodeEntities(r12)
    IN Trim(CollapseNewlines(r13, 1))

htmlToPlain(html) ==
    LET r1 == ReplaceTokens(html, HOpen \cup HClose \cup {"<p>", "</p>", "<div>", "</div>"},
                            <<NL>>)
        r2 == ReplaceTokens(r1, BrTags, <<NL>>)
        r3 == ReplacePair(r2, 1, {"<li>"}, {"</li>"}, Const({"<li>"}, <<"-", SP>>), <<NL>>)
        r4 == StripTags(r3, 1)
        r5 == CollapseNewlines(r4, 1)
    IN Trim(CollapseWhitespace(r5, 1))

formatResponse(html, format) ==
    CASE format = "html" -> html
      [] format = "markdown" -> htmlToMarkdown(html)
      [] format = "plain" -> htmlToPlain(html)
      [] OTHER -> htmlToMarkdown(html)

(***************************************************************************)
(* Configuration and model resolution (part_000:11-32, auth.js, part_001)  *)
(***************************************************************************)
Thrown(msg) == [thrown |-> TRUE, msg |-> msg, val |-> JsUndefined]
Returned(v) == [thrown |-> FALSE, msg |-> <<>>, val |-> v]

\* modelList.split(","): the runs of tokens between commas.
RECURSIVE SplitComma(_, _)
SplitComma(s, cur) ==
    IF s = <<>> THEN <<cur>>
    ELSE IF Head(s) = COMMA THEN <<cur>> \o SplitComma(Tail(s), <<>>)
    ELSE SplitComma(Tail(s), Append(cur, Head(s)))

\* list.join(", ")
RECURSIVE Join(_)
Join(list) ==
    IF list = <<>> THEN <<>>
    ELSE IF Len(list) = 1 THEN list[1]
    ELSE list[1] \o <<COMMA, SP>> \o Join(Tail(list))

\* getAvailableModels(): the list of model names (sequences of names), or the throw.
getAvailableModels(modelList) ==
    IF ~Truthy(modelList)
    THEN Thrown(<<"KAGI_MODEL_LIST environment variable not set.">>)
    ELSE LET parts == SplitComma(modelList.s, <<>>)
             trimmed == [i \in 1..Len(parts) |-> Trim(parts[i])]
         IN Returned(SelectSeq(trimmed, LAMBDA m : Len(m) > 0))

\* getDefaultModel(): a value (undefined when the list is empty), or the throw.
getDefaultModel(defaultModel, modelList) ==
    IF Truthy(defaultModel) THEN Returned(defaultModel)
    ELSE LET availableModels == getAvailableModels(modelList) IN
         IF availableModels.thrown THEN availableModels
         ELSE IF availableModels.val = <<>> THEN Returned(JsUndefined)
         ELSE Returned(JsStr(availableModels.val[1]))

\* isValidTokenFormat(token)
isValidTokenFormat(token) == token.t = "str" /\ Len(Trim(token.s)) > 0

\* readTokenFromFile(): the file is absent, holds a token, or cannot be read.
readTokenFromFile(file) ==
    CASE file = "absent" -> Returned(JsNull)
      [] file = "present" -> Returned(JsStr(<<"ftok">>))
      [] file = "blank" -> Returned(JsNull)
      [] file = "unreadable" -> Thrown(<<"Failed to read token file: ", "EACCES">>)

\* resolveToken(), which getEnvironmentConfig() calls.
resolveToken(envToken, file) ==
    IF Truthy(envToken) /\ isValidTokenFormat(envToken)
    THEN Returned(JsStr(Trim(envToken.s)))
    ELSE LET fileToken == readTokenFromFile(file) IN
         IF fileToken.thrown THEN fileToken
         ELSE IF Truthy(fileToken.val) /\ isValidTokenFormat(fileToken.val)
              THEN fileToken
              ELSE Thrown(<<"No valid Kagi session token found.">>)

\* formatError(error) for an Error instance.
formatError(msg) ==
    JsStr(<<"Error: ">> \o (IF msg # <<>> THEN msg ELSE <<"Error">>))

(***************************************************************************)
(* buildRequestData (part_000:183-206).  uuid is the value uuidv4()        *)
(* returns; message_id is undefined when the key is not set.               *)
(***************************************************************************)
\* Mutant: a message_id is generated for every turn.
buildRequestData_AlwaysMessageId(prompt, model, internetAccess, tid, uuid) ==
    [focus |-> [thread_id |-> tid,
                branch_id |-> BRANCH_ID,
                prompt |-> prompt,
                message_id |-> uuid],
     profile |-> [internet_access |-> internetAccess, model |-> model]]

buildRequestData(prompt, model, internetAccess, tid, uuid) ==
    [focus |-> [thread_id |-> tid,
                branch_id |-> BRANCH_ID,
                prompt |-> prompt,
                message_id |-> IF Truthy(tid) THEN uuid ELSE 0],
     profile |-> [internet_access |-> internetAccess, model |-> model]]

HasMessageId(requestData) == requestData.focus.message_id # 0

(***************************************************************************)
(* Response processing (part_000:298-349)                                  *)
(***************************************************************************)
\* Lines 302-306: the id of the thread document when line 307 assigns it,
\* undefined when the code leaves threadId alone.
ThreadDocId(responseText) ==
    LET threadJson == extractJson(responseText, THREAD_MARKER) IN
    IF ~threadJson.found THEN JsUndefined
    ELSE LET threadData == JsonParse(threadJson.json) IN
         IF threadData.ok /\ Truthy(GetProp(threadData.val, "id"))
         THEN GetProp(threadData.val, "id")
         ELSE JsUndefined

\* Mutant: a message document that is no JSON is taken for an empty one.
MessageOutcome_LenientParse(responseText, format) ==
    LET messageJson == extractJson(responseText, MESSAGE_MARKER) IN
    IF ~messageJson.found
    THEN [reply |-> FALSE, content |-> JsUndefined,
          msg |-> <<"Failed to parse assistant response">>]
    ELSE [reply |-> FALSE, content |-> JsUndefined,
          msg |-> <<"Assistant response not in expected format">>]

\* Lines 314-339: what the call returns (reply = TRUE: the return of line 329)
\* or the message of the error it throws to the catch of line 340.
MessageOutcome(responseText, format) ==
    LET messageJson == extractJson(responseText, MESSAGE_MARKER) IN
    IF ~messageJson.found
    THEN [reply |-> FALSE, content |-> JsUndefined,
          msg |-> <<"Failed to parse assistant response">>]
    ELSE LET messageData == JsonParse(messageJson.json) IN
         IF ~messageData.ok
         THEN [reply |-> FALSE, content |-> JsUndefined,
               msg |-> <<"Failed to parse message JSON response">>]
         ELSE LET state == GetProp(messageData.val, "state")
                  reply == GetProp(messageData.val, "reply")
              IN IF state = JsStr(<<"done">>) /\ Truthy(reply)
                 THEN IF reply.t = "str"
                      THEN [reply |-> TRUE, msg |-> <<>>,
                            content |-> JsStr(formatResponse(reply.s, format))]
                      ELSE IF format = "html"
                      THEN [reply |-> TRUE, msg |-> <<>>, content |-> reply]
                      ELSE [reply |-> FALSE, content |-> JsUndefined,
                            msg |-> <<"html.replace is not a function">>]
                 ELSE [reply |-> FALSE, content |-> JsUndefined,
                       msg |-> <<"Assistant response not in expected format">>]

(***************************************************************************)
(* Inputs: call arguments, environment and response bodies                 *)
(***************************************************************************)
Callers == {"c1", "c2"}
\* How many identifiers uuidv4 hands out in a run.
MaxUuid == 2

Prompts == {JsStr(<<>>), JsStr(<<"q">>)}
ModelArgs == {JsUndefined, JsStr(<<"a">>), JsStr(<<"c">>)}
Formats == {"html", "markdown", "plain"}
EnvTokens == {JsUndefined, JsStr(<<"tok">>)}
TokenFiles == {"absent", "present", "unreadable"}
EnvCookies == {JsUndefined, JsStr(<<"ck">>)}
EnvModelLists == {JsUndefined, JsStr(<<SP, COMMA>>), JsStr(<<"a", COMMA, SP, "b">>)}
EnvDefaultModels == {JsUndefined, JsStr(<<"b">>), JsStr(<<"zz">>)}
FetchOutcomes == {"network failure", "200", "401", "403", "500"}

Str(toks) == <<QUOTE>> \o toks \o <<QUOTE>>
Member(key, valueText) == Str(<<key>>) \o <<COLON>> \o valueText
Obj(memberText) == <<LBRACE>> \o memberText \o <<RBRACE>>
DoneWith(replyText) ==
    Obj(Member("state", Str(<<"done">>)) \o <<COMMA>> \o Member("reply", replyText))

\* What may stand at the thread document's place in a response body.
ThreadParts ==
    { <<>>,
      <<THREAD_MARKER, SP>> \o Obj(Member("id", Str(<<"abc">>))),
      <<THREAD_MARKER>> \o Obj(Member("id", Str(<<"xyz">>))),
      <<THREAD_MARKER, SP>> \o Obj(Member("id", Str(<<"xyz">>)))
          \o <<SP, THREAD_MARKER, SP>> \o Obj(Member("id", Str(<<"abc">>))),
      <<THREAD_MARKER, SP, LBRACE, "id", RBRACE>>,
      <<THREAD_MARKER, SP>> \o Obj(Member("title", Str(<<"abc">>))),
      <<THREAD_MARKER, SP>> \o Obj(Member("id", Str(<<>>))),
      <<THREAD_MARKER, SP>>
          \o Obj(Member("id", Str(<<"abc">>)) \o <<COMMA>> \o Member("title", Str(<<RBRACE>>))) }

\* What may stand at the message document's place in a response body.
MessageParts ==
    { <<>>,
      <<MESSAGE_MARKER>>,
      <<MESSAGE_MARKER, SP>> \o DoneWith(Str(<<"<p>", "Hi", "</p>">>)),
      <<MESSAGE_MARKER, SP>>
          \o Obj(Member("state", Str(<<"pending">>)) \o <<COMMA>>
                 \o Member("reply", Str(<<"<p>", "Hi", "</p>">>))),
      <<MESSAGE_MARKER, SP>> \o Obj(Member("state", Str(<<"done">>))),
      <<MESSAGE_MARKER, SP>> \o DoneWith(Str(<<>>)),
      <<MESSAGE_MARKER, SP>> \o DoneWith(<<LBRACE, RBRACE>>),
      <<MESSAGE_MARKER, SP, LBRACE, "x", RBRACE>>,
      <<MESSAGE_MARKER, SP, LBRACE>> \o Member("state", Str(<<"done">>)),
      <<MESSAGE_MARKER, SP>> \o DoneWith(Str(<<"a", RBRACE, "b">>)),
      <<MESSAGE_MARKER, SP>> \o Obj(Member("state", Str(<<"pending">>)))
          \o <<NL, MESSAGE_MARKER, SP>>
          \o DoneWith(Str(<<"<ul>", "<li>", "a", "</li>", "<li>", "b", "</li>", "</ul>">>)) }

ResponseTexts ==
    { <<"noise", SP>> \o tp \o <<SP, "more", SP, "noise", SP>> \o mp :
        tp \in ThreadParts, mp \in MessageParts }

\* The two passes over each body, evaluated once per body.
ThreadDocIds == [t \in ResponseTexts |-> ThreadDocId(t)]
MessageOutcomes == [t \in ResponseTexts |-> [f \in Formats |-> MessageOutcome(t, f)]]

\* Lines 301-312: the thread identifier after the thread document is handled.
\* Mutant: a response without a usable thread identifier clears the session.
ThreadAfter_ClearsWithoutId(responseText, tid) ==
    IF ThreadDocIds[responseText] # JsUndefined THEN ThreadDocIds[responseText] ELSE JsNull

ThreadAfter(responseText, tid) ==
    IF ThreadDocIds[responseText] # JsUndefined THEN ThreadDocIds[responseText] ELSE tid

(***************************************************************************)
(* State                                                                   *)
(***************************************************************************)
NoRequest == buildRequestData(<<>>, <<>>, FALSE, JsNull, 0)
IdleCall == [pc |-> "idle", new_conversation |-> FALSE, hadThread |-> FALSE,
             requestData |-> NoRequest]
NoLast == [status |-> "none", replied |-> FALSE, content |-> JsUndefined, msg |-> <<>>,
           sent |-> FALSE, hasText |-> FALSE, text |-> <<>>, format |-> ""]

\* The promise of kagiAssistant resolves with one text item: an error text.
ResolvedError(msg, sent, hasText, text, format) ==
    [status |-> "resolved", replied |-> FALSE, content |-> formatError(msg), msg |-> msg,
     sent |-> sent, hasText |-> hasText, text |-> text, format |-> format]
\* The promise resolves with the formatted reply.
ResolvedReply(content, text, format) ==
    [status |-> "resolved", replied |-> TRUE, content |-> content, msg |-> <<>>,
     sent |-> TRUE, hasText |-> TRUE, text |-> text, format |-> format]
\* The promise rejects: the error leaves kagiAssistant.
Rejected(msg) ==
    [status |-> "rejected", replied |-> FALSE, content |-> JsUndefined, msg |-> msg,
     sent |-> FALSE, hasText |-> FALSE, text |-> <<>>, format |-> ""]

uuidv4(count) == count + 1

\* kagiSearchFetch is not running and has returned nothing.
NoSearchReturn ==
    [status |-> "none", failed |-> FALSE, msg |-> <<>>, sections |-> <<>>, errors |-> <<>>]
SearchIdle ==
    /\ searchCall = [pc |-> "off", queries |-> <<>>, token |-> JsUndefined,
                     searches |-> <<>>, results |-> <<>>]
    /\ searchReturn = NoSearchReturn

ExtractIdle ==
    /\ xText = <<>> /\ xMarker = "" /\ xPart = <<>> /\ xStart = 0
    /\ xScan = ScanInit(0) /\ xPc = "off"

Init ==
    /\ threadId = JsNull
    /\ calls = [c \in Callers |-> IdleCall]
    /\ uuidCount = 0
    /\ last = NoLast
    /\ ExtractIdle
    /\ SearchIdle

(***************************************************************************)
(* kagiAssistant, up to its first await (part_000:219-289).  The           *)
(* environment is read where the code reads it.                            *)
(***************************************************************************)
\* Mutant: a call that ends early has already cleared the session.
EndsEarly_AfterReset(result) ==
    /\ last' = result
    /\ threadId' = JsNull
    /\ UNCHANGED <<calls, uuidCount>>

\* The call ends before any request is sent.
EndsEarly(result) ==
    /\ last' = result
    /\ UNCHANGED <<threadId, calls, uuidCount>>

\* Mutant: the session is not reset for a new conversation.
Sends_WithoutReset(c, prompt, model, new_conversation, internet_access) ==
    LET tid == threadId
        uuid == uuidv4(uuidCount)
        requestData == buildRequestData(prompt.s, model.s, internet_access, tid, uuid)
    IN /\ (HasMessageId(requestData) => uuidCount < MaxUuid)
       /\ threadId' = tid
       /\ uuidCount' = IF HasMessageId(requestData) THEN uuid ELSE uuidCount
       /\ calls' = [calls EXCEPT ![c] =
                       [pc |-> "fetch", new_conversation |-> new_conversation,
                        hadThread |-> Truthy(threadId), requestData |-> requestData]]
       /\ UNCHANGED last

\* Lines 254-289: reset, build, send.
Sends(c, prompt, model, new_conversation, internet_access) ==
    LET tid == IF new_conversation THEN JsNull ELSE threadId
        uuid == uuidv4(uuidCount)
        requestData == buildRequestData(prompt.s, model.s, internet_access, tid, uuid)
    IN /\ (HasMessageId(requestData) => uuidCount < MaxUuid)
       /\ threadId' = tid
       /\ uuidCount' = IF HasMessageId(requestData) THEN uuid ELSE uuidCount
       /\ calls' = [calls EXCEPT ![c] =
                       [pc |-> "fetch", new_conversation |-> new_conversation,
                        hadThread |-> Truthy(threadId), requestData |-> requestData]]
       /\ UNCHANGED last

\* Mutant: the model is not looked up in the list.
Validates_AnyModel(c, model, modelList) ==
    \E prompt \in Prompts :
      IF ~Truthy(prompt)
      THEN EndsEarly(ResolvedError(<<"Assistant called with no prompt.">>,
                                   FALSE, FALSE, <<>>, ""))
      ELSE \E envToken \in EnvTokens, file \in TokenFiles :
        LET token == resolveToken(envToken, file) IN
        IF token.thrown
        THEN EndsEarly(ResolvedError(token.msg, FALSE, FALSE, <<>>, ""))
        ELSE LET availableModels == getAvailableModels(modelList) IN
          IF availableModels.thrown
          THEN EndsEarly(ResolvedError(availableModels.msg, FALSE, FALSE, <<>>, ""))
          ELSE \E kagiSearchCookie \in EnvCookies :
            IF ~Truthy(kagiSearchCookie)
            THEN EndsEarly(ResolvedError(
                     <<"KAGI_SEARCH_COOKIE environment variable not set.">>,
                     FALSE, FALSE, <<>>, ""))
            ELSE \E new_conversation \in BOOLEAN :
                   Sends(c, prompt, IF model.t = "str" THEN model ELSE JsStr(<<"undefined">>),
                         new_conversation, TRUE)

\* Lines 226-252, with model already bound.
Validates(c, model, modelList) ==
    \E prompt \in Prompts :
      IF ~Truthy(prompt)
      THEN EndsEarly(ResolvedError(<<"Assistant called with no prompt.">>,
                                   FALSE, FALSE, <<>>, ""))
      ELSE \E envToken \in EnvTokens, file \in TokenFiles :
        LET token == resolveToken(envToken, file) IN
        IF token.thrown
        THEN EndsEarly(ResolvedError(token.msg, FALSE, FALSE, <<>>, ""))
        ELSE LET availableModels == getAvailableModels(modelList) IN
          IF availableModels.thrown
          THEN EndsEarly(ResolvedError(availableModels.msg, FALSE, FALSE, <<>>, ""))
          ELSE IF ~Truthy(token.val)
          THEN EndsEarly(ResolvedError(
                   <<"KAGI_SESSION_TOKEN environment variable not set.">>,
                   FALSE, FALSE, <<>>, ""))
          ELSE \E kagiSearchCookie \in EnvCookies :
            IF ~Truthy(kagiSearchCookie)
            THEN EndsEarly(ResolvedError(
                     <<"KAGI_SEARCH_COOKIE environment variable not set.">>,
                     FALSE, FALSE, <<>>, ""))
            ELSE IF ~(model.t = "str"
                      /\ \E i \in 1..Len(availableModels.val) :
                            availableModels.val[i] = model.s)
            THEN EndsEarly(ResolvedError(
                     <<"Invalid model ", QUOTE>>
                         \o (IF model.t = "str" THEN model.s ELSE <<"undefined">>)
                         \o <<QUOTE, ". Available models: ">>
                         \o Join(availableModels.val),
                     FALSE, FALSE, <<>>, ""))
            ELSE \E new_conversation \in BOOLEAN :
                   Sends(c, prompt, model, new_conversation, TRUE)

kagiAssistant(c) ==
    /\ last.status = "none"
    /\ calls[c].pc = "idle"
    /\ UNCHANGED extractVars
    /\ UNCHANGED searchVars
    /\ \E modelArg \in ModelArgs, modelList \in EnvModelLists :
         IF modelArg # JsUndefined
         THEN Validates(c, modelArg, modelList)
         ELSE \E defaultModel \in EnvDefaultModels :
                LET model == getDefaultModel(defaultModel, modelList) IN
                IF model.thrown THEN EndsEarly(Rejected(model.msg))
                ELSE Validates(c, model.val, modelList)

(***************************************************************************)
(* The two awaits (part_000:285-299) and the rest of the call              *)
(***************************************************************************)
Finishes(c, result) ==
    /\ last' = result
    /\ calls' = [calls EXCEPT ![c] = IdleCall]

\* Mutant: a failed request clears the session.
FetchSettles_ClearsOnFailure(c) ==
    /\ last.status = "none"
    /\ calls[c].pc = "fetch"
    /\ UNCHANGED uuidCount
    /\ UNCHANGED extractVars
    /\ UNCHANGED searchVars
    /\ \E outcome \in FetchOutcomes :
         IF outcome = "200"
         THEN /\ calls' = [calls EXCEPT ![c].pc = "text"]
              /\ UNCHANGED <<last, threadId>>
         ELSE /\ threadId' = JsNull
              /\ Finishes(c, ResolvedError(<<"fetch failed">>, TRUE, FALSE, <<>>, ""))

\* await fetch(...) settles.
FetchSettles(c) ==
    /\ last.status = "none"
    /\ calls[c].pc = "fetch"
    /\ UNCHANGED <<threadId, uuidCount>>
    /\ UNCHANGED extractVars
    /\ UNCHANGED searchVars
    /\ \E outcome \in FetchOutcomes :
         CASE outcome = "network failure" ->
                Finishes(c, ResolvedError(<<"fetch failed">>, TRUE, FALSE, <<>>, ""))
           [] outcome \in {"401", "403"} ->
                Finishes(c, ResolvedError(<<"Invalid or expired session token">>,
                                          TRUE, FALSE, <<>>, ""))
           [] outcome = "200" ->
                /\ calls' = [calls EXCEPT ![c].pc = "text"]
                /\ UNCHANGED last
           [] OTHER ->
                Finishes(c, ResolvedError(<<"HTTP ", outcome>>, TRUE, FALSE, <<>>, ""))

\* await response.text() settles with the body; lines 301-349 follow.
TextSettles(c) ==
    /\ last.status = "none"
    /\ calls[c].pc = "text"
    /\ UNCHANGED uuidCount
    /\ UNCHANGED extractVars
    /\ UNCHANGED searchVars
    /\ \E responseText \in ResponseTexts, format \in Formats :
         LET out == MessageOutcomes[responseText][format] IN
         /\ threadId' = ThreadAfter(responseText, threadId)
         /\ Finishes(c, IF out.reply
                        THEN ResolvedReply(out.content, responseText, format)
                        ELSE ResolvedError(out.msg, TRUE, TRUE, responseText, format))

\* await response.text() rejects: the body could not be read.
TextFails(c) ==
    /\ last.status = "none"
    /\ calls[c].pc = "text"
    /\ UNCHANGED <<threadId, uuidCount>>
    /\ UNCHANGED extractVars
    /\ UNCHANGED searchVars
    /\ Finishes(c, ResolvedError(<<"terminated">>, TRUE, FALSE, <<>>, ""))

\* The settled promise reaches the caller awaiting it: a microtask, which runs
\* before any other call starts and before any other await settles.
Delivered ==
    /\ last.status # "none"
    /\ last' = NoLast
    /\ UNCHANGED <<threadId, calls, uuidCount>>
    /\ UNCHANGED extractVars
    /\ UNCHANGED searchVars

Exchange(c) ==
    \/ kagiAssistant(c)
    \/ FetchSettles(c)
    \/ TextSettles(c)
    \/ TextFails(c)

Next ==
    \/ \E c \in Callers : Exchange(c)
    \/ Delivered

Spec == Init /\ [][Next]_vars

(***************************************************************************)
(* extractJson on its own: the text is drawn from bounded sets and the     *)
(* loop of lines 150-170 runs one character per step.                      *)
(***************************************************************************)
\* The longest run of loose characters around the objects of a text.
MaxNoise == 1

XAlphabet == {MESSAGE_MARKER, LBRACE, RBRACE, QUOTE, BSLASH, "x", SP}
XNoise == UNION {[1..n -> XAlphabet] : n \in 0..MaxNoise}
XBetween == {<<>>} \cup {<<a>> : a \in XAlphabet}
XKey == Str(<<"k">>) \o <<COLON>>
\* Object texts, well formed and truncated, and no object at all.
XObjects ==
    { <<>>,
      <<LBRACE, RBRACE>>,
      Obj(XKey \o Str(<<"v">>)),
      Obj(XKey \o Obj(XKey \o Str(<<"v">>))),
      Obj(XKey \o Str(<<RBRACE>>)),
      Obj(XKey \o Str(<<LBRACE>>)),
      Obj(XKey \o Str(<<LBRACE, RBRACE>>)),
      Obj(XKey \o Str(<<BSLASH, QUOTE>>)),
      Obj(XKey \o Str(<<BSLASH, QUOTE, RBRACE>>)),
      Obj(XKey \o Str(<<BSLASH, BSLASH>>)),
      <<LBRACE>> \o XKey \o Str(<<"v">>),
      <<LBRACE>> \o XKey \o <<QUOTE, RBRACE>> }
ExtractTexts ==
    {n1 \o o1 \o n2 \o o2 : n1 \in XNoise, n2 \in XBetween, o1 \in XObjects, o2 \in XObjects}

ExchangeIdle ==
    /\ threadId = JsNull
    /\ calls = [c \in Callers |-> IdleCall]
    /\ uuidCount = 0
    /\ last = NoLast

ExtractInit ==
    /\ ExchangeIdle
    /\ SearchIdle
    /\ xText \in ExtractTexts
    /\ xMarker = MESSAGE_MARKER
    /\ xPart = <<>> /\ xStart = 0 /\ xScan = ScanInit(0)
    /\ xPc = "start"

\* Lines 132-148: locate the marker and the first brace after it.
Locate ==
    /\ xPc = "start"
    /\ LET lastPart == LastPart(xText, xMarker)
           start == IndexOf(lastPart, LBRACE)
       IN IF LastIndexOf(xText, xMarker) = 0 \/ start = 0
          THEN xPc' = "null" /\ UNCHANGED <<xPart, xStart, xScan>>
          ELSE /\ xPc' = "scan"
               /\ xPart' = lastPart
               /\ xStart' = start
               /\ xScan' = ScanInit(start)
    /\ UNCHANGED <<xText, xMarker>>
    /\ UNCHANGED exchangeVars
    /\ UNCHANGED searchVars

\* Lines 150-170: one iteration; "found" is the return of line 160.
ScanChar ==
    /\ xPc = "scan"
    /\ xScan.i <= Len(xPart)
    /\ xScan' = ScanStep(xPart, xScan)
    /\ xPc' = IF xScan'.ret THEN "found" ELSE "scan"
    /\ UNCHANGED <<xText, xMarker, xPart, xStart>>
    /\ UNCHANGED exchangeVars
    /\ UNCHANGED searchVars

\* Line 172: the loop ran off the text.
Exhausted ==
    /\ xPc = "scan"
    /\ xScan.i > Len(xPart)
    /\ xPc' = "null"
    /\ UNCHANGED <<xText, xMarker, xPart, xStart, xScan>>
    /\ UNCHANGED exchangeVars
    /\ UNCHANGED searchVars

ExtractNext == Locate \/ ScanChar \/ Exhausted

SpecExtract == ExtractInit /\ [][ExtractNext]_vars

\* What the stepwise run returned, once it has.
XReturned == xPc \in {"found", "null"}
XResult == IF xPc = "found" THEN Found(SubSeq(xPart, xStart, xScan.i)) ELSE NotFound

(***************************************************************************)
(* What a text holds, read as JSON and not as the code scans it            *)
(***************************************************************************)
\* The text after the last marker, untrimmed.
AfterLastMarker(text, marker) == SubSeq(text, LastIndexOf(text, marker) + 1, Len(text))

\* The JSON lexer's state after the characters s[from..upto], from outside any
\* string: whether it is inside a string literal, and whether the last
\* character was an escaping backslash.
RECURSIVE Lex(_, _, _)
Lex(s, from, upto) ==
    IF upto < from THEN [inString |-> FALSE, escape |-> FALSE]
    ELSE LET before == Lex(s, from, upto - 1)
             char == s[upto]
         IN IF before.inString
            THEN IF before.escape THEN [inString |-> TRUE, escape |-> FALSE]
                 ELSE IF char = BSLASH THEN [inString |-> TRUE, escape |-> TRUE]
                 ELSE IF char = QUOTE THEN [inString |-> FALSE, escape |-> FALSE]
                 ELSE before
            ELSE [inString |-> char = QUOTE, escape |-> FALSE]

\* s[i] lies inside a string literal of the text that starts at s[from].
InsideString(s, from, i) == Lex(s, from, i - 1).inString

\* The braces of s[from..upto] that lie outside string literals: opened minus closed.
RECURSIVE Depth(_, _, _)
Depth(s, from, upto) ==
    IF upto < from THEN 0
    ELSE Depth(s, from, upto - 1)
         + (IF InsideString(s, from, upto) THEN 0
            ELSE IF s[upto] = LBRACE THEN 1
            ELSE IF s[upto] = RBRACE THEN -1 ELSE 0)

\* The positions at which an object that opens at s[from] is closed.
Closings(s, from) == {j \in from..Len(s) : Depth(s, from, j) = 0}

\* A complete object follows the last marker: the first "{" after it is closed.
CompleteObjectFollows(text, marker) ==
    LET rest == AfterLastMarker(text, marker)
        from == IndexOf(rest, LBRACE)
    IN /\ LastIndexOf(text, marker) # 0
       /\ from # 0
       /\ Closings(rest, from) # {}

\* The well-formed JSON object that follows the last marker, after whitespace
\* only: [ok, json].
ObjectAfterMarker(text, marker) ==
    LET rest == AfterLastMarker(text, marker)
        from == SkipWs(rest, 1)
        ends == {j \in from..Len(rest) : JsonParse(SubSeq(rest, from, j)).ok}
    IN IF LastIndexOf(text, marker) = 0 \/ from > Len(rest) \/ rest[from] # LBRACE
          \/ ends = {}
       THEN [ok |-> FALSE, json |-> <<>>]
       ELSE [ok |-> TRUE, json |-> SubSeq(rest, from, CHOOSE j \in ends : TRUE)]

\* How often the marker occurs.
Occurrences(text, marker) == Cardinality({i \in 1..Len(text) : text[i] = marker})

(***************************************************************************)
(* Claims about extractJson, under SpecExtract                             *)
(***************************************************************************)
\* C4: whenever the marker is followed by a well-formed JSON object,
\* extractJson returns exactly that object's text, whatever surrounds it.
C4_ReturnsTheObject ==
    (XReturned /\ ObjectAfterMarker(xText, xMarker).ok)
        => XResult = Found(ObjectAfterMarker(xText, xMarker).json)

\* The loop has just consumed the character xPart[xScan.i].
ScanCharStep == xPc = "scan" /\ xScan.i <= Len(xPart) /\ xScan' # xScan

\* C5: a brace inside a string literal never moves the depth counter, and
\* the in-string flag follows the unescaped quotes.
C5_StringBracesIgnored ==
    [][ScanCharStep =>
         /\ (xPart[xScan.i] \in {LBRACE, RBRACE} /\ InsideString(xPart, xStart, xScan.i))
               => xScan'.count = xScan.count
         /\ xScan'.ret \/ xScan'.inString = Lex(xPart, xStart, xScan.i).inString]_vars

\* C6: with several markers only the text after the last one counts, and
\* the result is null when no complete object follows the last one.
C6_LastMarkerOnly ==
    (XReturned /\ Occurrences(xText, xMarker) > 1)
        => /\ XResult = extractJson(<<xMarker>> \o AfterLastMarker(xText, xMarker), xMarker)
           /\ ~CompleteObjectFollows(xText, xMarker) => XResult = NotFound

\* The first half of C6 on its own: the text before the last marker never
\* influences the result.
LastMarkerDecides ==
    XReturned =>
        XResult = IF LastIndexOf(xText, xMarker) = 0 THEN NotFound
                  ELSE extractJson(<<xMarker>> \o AfterLastMarker(xText, xMarker), xMarker)

(***************************************************************************)
(* Claims about the exchange, under Spec.  last is the call that has just  *)
(* returned; threadId in that state is the session when the call returns.  *)
(***************************************************************************)
ScenarioText ==
    <<"noise", SP, THREAD_MARKER, SP>> \o Obj(Member("id", Str(<<"abc">>)))
        \o <<SP, "more", SP, "noise", SP, MESSAGE_MARKER, SP>>
        \o DoneWith(Str(<<"<p>", "Hi", "</p>">>))

\* The document a body holds after the last marker, read as JSON:
\* [found, val].
DocumentIn(text, marker) ==
    LET object == ObjectAfterMarker(text, marker)
    IN [found |-> object.ok,
        val |-> IF object.ok THEN JsonParse(object.json).val ELSE JsUndefined]
ThreadDocs == [t \in ResponseTexts |-> DocumentIn(t, THREAD_MARKER)]
MessageDocs == [t \in ResponseTexts |-> DocumentIn(t, MESSAGE_MARKER)]

\* No JSON object stands at the first brace after the last marker: the
\* marker is missing, the object is incomplete, or it is no JSON.
NoDocument(text, marker) ==
    LET rest == AfterLastMarker(text, marker)
        from == IndexOf(rest, LBRACE)
    IN \/ LastIndexOf(text, marker) = 0
       \/ from = 0
       \/ \A j \in from..Len(rest) : ~JsonParse(SubSeq(rest, from, j)).ok
NoThreadDocuments == [t \in ResponseTexts |-> NoDocument(t, THREAD_MARKER)]
NoMessageDocuments == [t \in ResponseTexts |-> NoDocument(t, MESSAGE_MARKER)]

ParseErrors ==
    {<<"Failed to parse assistant response">>, <<"Failed to parse message JSON response">>}
StateError == <<"Assistant response not in expected format">>
ErrorText(msg) == JsStr(<<"Error: ">> \o msg)

\* C1: when the response holds a thread document with identifier T, the
\* session is T when the call returns, whatever it held and whatever the
\* message document is; the scenario of the specification gives "abc", "Hi".
C1_SessionAdvances ==
    last.hasText =>
        /\ LET id == GetProp(ThreadDocs[last.text].val, "id")
           IN (ThreadDocs[last.text].found /\ id.t = "str" /\ id.s # <<>>) => threadId = id
        /\ (last.text = ScenarioText /\ last.format = "markdown")
              => /\ threadId = JsStr(<<"abc">>)
                 /\ last.replied
                 /\ last.content = JsStr(<<"Hi">>)

\* C2: a call with new_conversation = true that passes validation sends a
\* payload without thread identifier and without message identifier.
C2_NewConversationPayload ==
    \A c \in Callers :
        (calls[c].pc # "idle" /\ calls[c].new_conversation)
            => /\ calls[c].requestData.focus.thread_id = JsNull
               /\ ~HasMessageId(calls[c].requestData)

C2_Witness ==
    \E c \in Callers :
        calls[c].pc = "fetch" /\ calls[c].new_conversation /\ calls[c].hadThread

\* The step in which caller c builds and sends its payload.
Builds(c) == calls[c].pc = "idle" /\ calls'[c].pc = "fetch"

\* C3: the payload carries the session of build time; message_id is present
\* exactly when that session holds an identifier, and is then new; branch_id
\* is the constant.
C3_PayloadInvariant ==
    [][\A c \in Callers :
        Builds(c) =>
            LET focus == calls'[c].requestData.focus IN
            /\ focus.thread_id = threadId'
            /\ (~calls'[c].new_conversation) => focus.thread_id = threadId
            /\ HasMessageId(calls'[c].requestData) <=> Truthy(threadId')
            /\ HasMessageId(calls'[c].requestData)
                  => /\ focus.message_id \notin 1..uuidCount
                     /\ \A d \in Callers :
                           calls[d].requestData.focus.message_id # focus.message_id
            /\ focus.branch_id = "00000000-0000-4000-0000-000000000000"]_vars

C3_Witness ==
    /\ \A c \in Callers :
          /\ calls[c].pc # "idle" /\ ~calls[c].new_conversation
          /\ calls[c].requestData.focus.thread_id = JsStr(<<"abc">>)
          /\ HasMessageId(calls[c].requestData)
    /\ calls["c1"].requestData.focus.message_id # calls["c2"].requestData.focus.message_id

\* C7: without a JSON message document after the last marker the call
\* returns a parse error text and no reply.
C7_ParseError ==
    (last.hasText /\ NoMessageDocuments[last.text])
        => /\ last.status = "resolved"
           /\ ~last.replied
           /\ last.msg \in ParseErrors
           /\ last.content = ErrorText(last.msg)

C7_Witness ==
    /\ last.hasText
    /\ LastIndexOf(last.text, MESSAGE_MARKER) # 0
    /\ IndexOf(AfterLastMarker(last.text, MESSAGE_MARKER), LBRACE) # 0
    /\ NoMessageDocuments[last.text]
    /\ last.content = ErrorText(<<"Failed to parse message JSON response">>)

\* C8: a reply is returned exactly when the message document has state
\* "done" and a reply field; every other message document gives the state
\* error and no reply.
C8_ReplyIffDoneAndPresent ==
    (last.hasText /\ MessageDocs[last.text].found)
        => LET doc == MessageDocs[last.text].val IN
           /\ last.replied <=> (GetProp(doc, "state") = JsStr(<<"done">>)
                                /\ GetProp(doc, "reply") # JsUndefined)
           /\ ~last.replied => last.msg = StateError

\* The message document is one the call can answer from.
MessageUsable(text) ==
    /\ MessageDocs[text].found
    /\ GetProp(MessageDocs[text].val, "state") = JsStr(<<"done">>)
    /\ GetProp(MessageDocs[text].val, "reply").t = "str"
    /\ GetProp(MessageDocs[text].val, "reply").s # <<>>

\* The step in which caller c receives the body and returns.
Processes(c) == calls[c].pc = "text" /\ calls'[c].pc = "idle" /\ last'.hasText

\* C9: with the thread document absent or no JSON, the call does not fail
\* for it: the session still holds what it held when the payload was built,
\* and the reply of a valid message document is returned.
C9_ThreadFailureSwallowed ==
    [][\A c \in Callers :
        (Processes(c) /\ NoThreadDocuments[last'.text])
            => /\ threadId' = calls[c].requestData.focus.thread_id
               /\ last'.status = "resolved"
               /\ MessageUsable(last'.text)
                     => /\ last'.replied
                        /\ last'.content =
                             JsStr(formatResponse(
                                 GetProp(MessageDocs[last'.text].val, "reply").s,
                                 last'.format))]_vars

\* C10: every error of an exchange comes back as one "Error: ..." text;
\* the promise of kagiAssistant never rejects, and an errored call carries
\* no reply.
C10_ErrorsBecomeText ==
    last.status # "none"
        => /\ last.status = "resolved"
           /\ ~last.replied => last.content = ErrorText(last.msg)

\* Caller c is in one of its two awaits.
InFlight(c) == calls[c].pc \in {"fetch", "text"}

\* C11: the payload carries the session read at build time, and while the
\* call waits the session changes only in steps of other calls: with no
\* other call in between, the session at response time is the one read at
\* build time; with another call in flight it may be cleared or overwritten.
C11_OnlyOthersDisturb ==
    [][\A c \in Callers :
        /\ Builds(c) => calls'[c].requestData.focus.thread_id = threadId'
        /\ (InFlight(c) /\ threadId' # threadId /\ ~Processes(c))
              => \E d \in Callers \ {c} : calls'[d] # calls[d]]_vars

\* Serialized use: a call starts only when no call is in flight.
SerialNext ==
    \/ \E c \in Callers :
          /\ \A d \in Callers : calls[d].pc = "idle"
          /\ kagiAssistant(c)
    \/ \E c \in Callers : FetchSettles(c) \/ TextSettles(c) \/ TextFails(c)
    \/ Delivered
SpecSerial == Init /\ [][SerialNext]_vars

\* Under SpecSerial the session a response meets is the one its payload
\* was built with.
SerialSessionStable ==
    \A c \in Callers : InFlight(c) => threadId = calls[c].requestData.focus.thread_id

\* A continuation has sent T and waits; the other call has since cleared or
\* overwritten the session.
C11_Witness ==
    \E c \in Callers :
        /\ calls[c].pc = "text"
        /\ ~calls[c].new_conversation
        /\ calls[c].requestData.focus.thread_id = JsStr(<<"abc">>)
        /\ threadId \in {JsNull, JsStr(<<"xyz">>)}

\* The models a call may end up with: requested, or defaulted.
ModelsTried ==
    (ModelArgs \ {JsUndefined})
        \cup {getDefaultModel(d, l).val : d \in EnvDefaultModels, l \in EnvModelLists}

\* The model is one of the names of the configured list.
Allowed(model, modelList) ==
    /\ Truthy(modelList)
    /\ model.t = "str"
    /\ \E i \in 1..Len(getAvailableModels(modelList).val) :
          getAvailableModels(modelList).val[i] = model.s

\* The errors of the checks that precede the model check.
EarlierErrors ==
    {<<"Assistant called with no prompt.">>,
     <<"No valid Kagi session token found.">>,
     <<"Failed to read token file: ", "EACCES">>,
     <<"KAGI_SESSION_TOKEN environment variable not set.">>,
     <<"KAGI_SEARCH_COOKIE environment variable not set.">>}

\* Invalid model "m". Available models: a, b
InvalidModel(model, names) ==
    <<"Invalid model ", QUOTE>> \o (IF model.t = "str" THEN model.s ELSE <<"undefined">>)
        \o <<QUOTE, ". Available models: ">> \o Join(names)

\* C12: a call whose model is not in the configured list sends nothing and,
\* the earlier checks passed, returns the error that names the list; a
\* payload that is sent carries a model of the list.
C12_ModelValidated ==
    [][\A c \in Callers, model \in ModelsTried, modelList \in EnvModelLists :
        (/\ calls[c].pc = "idle" /\ last.status = "none"
         /\ calls'[c].pc = "fetch" \/ (calls' = calls /\ last'.status # "none")
         /\ Validates(c, model, modelList))
            => /\ calls'[c].pc = "fetch"
                    => /\ Allowed(model, modelList)
                       /\ calls'[c].requestData.profile.model = model.s
               /\ (Truthy(modelList) /\ getAvailableModels(modelList).val # <<>>
                     /\ ~Allowed(model, modelList))
                    => /\ calls'[c].pc = "idle"
                       /\ last'.status = "resolved" /\ ~last'.replied /\ ~last'.sent
                       /\ last'.msg \in EarlierErrors
                             \cup {InvalidModel(model, getAvailableModels(modelList).val)}
                       /\ last'.content = ErrorText(last'.msg)]_vars

\* The scenario: a model outside the list a, b is refused, naming a, b.
C12_Witness ==
    /\ last.status = "resolved" /\ ~last.sent
    /\ last.msg = <<"Invalid model ", QUOTE, "c", QUOTE, ". Available models: ",
                    "a", COMMA, SP, "b">>
    /\ last.content = ErrorText(last.msg)

\* The configured list is unset, or yields no name after split and trim.
NoModels(modelList) ==
    ~Truthy(modelList) \/ getAvailableModels(modelList).val = <<>>

ModelListError == <<"KAGI_MODEL_LIST environment variable not set.">>

\* C13: with the list unset or without names the call fails with the error
\* about the model list, and never with the error about the model.
C13_EmptyListIsConfigError ==
    [][\A c \in Callers, model \in ModelsTried, modelList \in EnvModelLists :
        (/\ calls[c].pc = "idle" /\ last.status = "none"
         /\ calls'[c].pc = "fetch" \/ (calls' = calls /\ last'.status # "none")
         /\ NoModels(modelList)
         /\ Validates(c, model, modelList))
            => /\ calls'[c].pc = "idle"
               /\ last'.msg \in EarlierErrors \cup {ModelListError}]_vars

\* Runs of tokens of the set ws, each replaced by one space.
RECURSIVE CollapseRuns(_, _, _)
CollapseRuns(s, i, ws) ==
    IF i > Len(s) THEN <<>>
    ELSE LET e == RunEnd(s, i, ws) IN
         IF e >= i THEN <<SP>> \o CollapseRuns(s, e + 1, ws)
         ELSE <<s[i]>> \o CollapseRuns(s, i + 1, ws)

\* Plain text with its lines kept: newlines for paragraph, header, div and
\* break tags, "- item" and a newline for each list item, tags removed, three
\* or more newlines made two, other whitespace runs made one space, trimmed.
PlainWithLines(html) ==
    LET r1 == ReplaceTokens(html, HOpen \cup HClose \cup {"<p>", "</p>", "<div>", "</div>"},
                            <<NL>>)
        r2 == ReplaceTokens(r1, BrTags, <<NL>>)
        r3 == ReplacePair(r2, 1, {"<li>"}, {"</li>"}, Const({"<li>"}, <<"-", SP>>), <<NL>>)
        r4 == StripTags(r3, 1)
        r5 == CollapseNewlines(r4, 1)
    IN Trim(CollapseRuns(r5, 1, Whitespace \ {NL}))

ListMarkup == <<"<ul>", "<li>", "a", "</li>", "<li>", "b", "</li>", "</ul>">>

\* C14: a reply returned in plain format keeps its lines; the two-item list
\* comes back as "- a", newline, "- b".
C14_PlainKeepsLines ==
    (last.replied /\ last.format = "plain")
        => LET reply == GetProp(MessageDocs[last.text].val, "reply").s IN
           /\ last.content = JsStr(PlainWithLines(reply))
           /\ reply = ListMarkup => last.content = JsStr(<<"-", SP, "a", NL, "-", SP, "b">>)

(***************************************************************************)
(* The search tool: kagiSearchFetch (README.md:317-377) and                *)
(* formatSearchResults (part_001:13-55).  A report is kept as its sections *)
(* and error lines, in the order in which the text lists them.             *)
(***************************************************************************)
MaxQueries == 2

Queries == {<<>>, <<SP>>, <<"q1">>, <<SP, "q2">>}
QueryLists == UNION {[1..n -> Queries] : n \in 0..MaxQueries}

\* What search(query, token) may fulfil with: an object with a results list,
\* with a data list, with neither, or nothing at all.
NoResponse == [defined |-> FALSE, hasResults |-> FALSE, results |-> <<>>,
               hasData |-> FALSE, data |-> <<>>]
ResponseWith(results) == [defined |-> TRUE, hasResults |-> TRUE, results |-> results,
                          hasData |-> FALSE, data |-> <<>>]
SearchResponses ==
    {NoResponse,
     ResponseWith(<<>>), ResponseWith(<<"t1">>), ResponseWith(<<"t1", "t2">>),
     [defined |-> TRUE, hasResults |-> FALSE, results |-> <<>>,
      hasData |-> TRUE, data |-> <<"t3">>],
     [defined |-> TRUE, hasResults |-> FALSE, results |-> <<>>,
      hasData |-> FALSE, data |-> <<>>]}
SearchFailures == {<<"Network error">>}

\* The states of a promise.
PendingPromise == [status |-> "pending", value |-> NoResponse, reason |-> <<>>]
Fulfilled(value) == [status |-> "fulfilled", value |-> value, reason |-> <<>>]
RejectedWith(reason) == [status |-> "rejected", value |-> NoResponse, reason |-> reason]

\* part_001:34: response?.results || response?.data || []  (an array is truthy)
ResultsOf(response) ==
    IF response.hasResults THEN response.results
    ELSE IF response.hasData THEN response.data
    ELSE <<>>

\* part_001:29-52: the sections from query i on, numbered from startIndex.
RECURSIVE SectionsFrom(_, _, _, _)
SectionsFrom(queries, responses, i, startIndex) ==
    IF i > Len(queries) THEN <<>>
    ELSE LET results == ResultsOf(responses[i])
             formattedResultsList ==
                 [index \in 1..Len(results) |->
                     [resultNumber |-> startIndex + index - 1, title |-> results[index]]]
         IN <<[query |-> queries[i], results |-> formattedResultsList]>>
            \o SectionsFrom(queries, responses, i + 1, startIndex + Len(results))

formatSearchResults(queries, responses) == SectionsFrom(queries, responses, 1, 1)

\* README.md:346-360: responses and errors from the settled results.
SearchResponsesOf(results) ==
    [i \in 1..Len(results) |->
        IF results[i].status = "fulfilled" THEN results[i].value ELSE ResponseWith(<<>>)]

\* Mutant: a query that timed out is given no error line.
RECURSIVE SearchErrorsFrom_NoTimeouts(_, _, _)
SearchErrorsFrom_NoTimeouts(queries, results, i) ==
    IF i > Len(results) THEN <<>>
    ELSE (IF results[i].status = "fulfilled" \/ results[i].reason = <<"Search timeout">>
          THEN <<>>
          ELSE <<[query |-> queries[i], reason |-> results[i].reason]>>)
         \o SearchErrorsFrom_NoTimeouts(queries, results, i + 1)

RECURSIVE SearchErrorsFrom(_, _, _)
SearchErrorsFrom(queries, results, i) ==
    IF i > Len(results) THEN <<>>
    ELSE (IF results[i].status = "fulfilled" THEN <<>>
          ELSE <<[query |-> queries[i], reason |-> results[i].reason]>>)
         \o SearchErrorsFrom(queries, results, i + 1)

\* The returns of kagiSearchFetch: the report (the errors block is written
\* when errors is not empty), or the text of formatError.
SearchReport(sections, errors) ==
    [status |-> "resolved", failed |-> FALSE, msg |-> <<>>,
     sections |-> sections, errors |-> errors]
SearchError(msg) ==
    [status |-> "resolved", failed |-> TRUE, msg |-> formatError(msg).s,
     sections |-> <<>>, errors |-> <<>>]

SearchInit ==
    /\ ExchangeIdle
    /\ ExtractIdle
    /\ searchCall \in {[pc |-> "start", queries |-> queries, token |-> JsUndefined,
                        searches |-> <<>>, results |-> <<>>] : queries \in QueryLists}
    /\ searchReturn = NoSearchReturn

\* README.md:318-343: the checks, and the searches started together.
kagiSearchFetch ==
    /\ searchCall.pc = "start"
    /\ UNCHANGED <<exchangeVars, extractVars>>
    /\ LET queries == searchCall.queries IN
       IF queries = <<>>
       THEN /\ searchReturn' = SearchError(<<"Search called with no queries.">>)
            /\ searchCall' = [searchCall EXCEPT !.pc = "done"]
       ELSE \E envToken \in EnvTokens, file \in TokenFiles :
         LET token == resolveToken(envToken, file) IN
         IF token.thrown
         THEN /\ searchReturn' = SearchError(token.msg)
              /\ searchCall' = [searchCall EXCEPT !.pc = "done"]
         ELSE IF \E i \in 1..Len(queries) : Trim(queries[i]) = <<>>
         THEN /\ searchReturn' = SearchError(<<"All queries must be non-empty strings">>)
              /\ searchCall' = [searchCall EXCEPT !.pc = "done"]
         ELSE /\ searchCall' = [searchCall EXCEPT
                                  !.pc = "waiting",
                                  !.token = token.val,
                                  !.searches = [i \in 1..Len(queries) |-> PendingPromise],
                                  !.results = [i \in 1..Len(queries) |-> PendingPromise]]
              /\ UNCHANGED searchReturn

\* The promise of search i settles; the race of line 337 takes it unless the
\* timer was first.
SearchSettles(i) ==
    /\ searchCall.pc = "waiting"
    /\ searchCall.searches[i].status = "pending"
    /\ UNCHANGED <<exchangeVars, extractVars, searchReturn>>
    /\ \E outcome \in {Fulfilled(v) : v \in SearchResponses}
                        \cup {RejectedWith(r) : r \in SearchFailures} :
         searchCall' = [searchCall EXCEPT
                          !.searches[i] = outcome,
                          !.results[i] = IF @.status = "pending" THEN outcome ELSE @]

\* The 10 second timer of search i fires before the search has settled.
SearchTimeout(i) ==
    /\ searchCall.pc = "waiting"
    /\ searchCall.results[i].status = "pending"
    /\ UNCHANGED <<exchangeVars, extractVars, searchReturn>>
    /\ searchCall' = [searchCall EXCEPT !.results[i] = RejectedWith(<<"Search timeout">>)]

\* README.md:335-376: Promise.allSettled resolves, the report is built.
SearchCollects ==
    /\ searchCall.pc = "waiting"
    /\ \A i \in 1..Len(searchCall.results) : searchCall.results[i].status # "pending"
    /\ UNCHANGED <<exchangeVars, extractVars>>
    /\ LET responses == SearchResponsesOf(searchCall.results)
           errors == SearchErrorsFrom(searchCall.queries, searchCall.results, 1)
       IN searchReturn' =
              SearchReport(formatSearchResults(searchCall.queries, responses), errors)
    /\ searchCall' = [searchCall EXCEPT !.pc = "done"]

SearchNext ==
    \/ kagiSearchFetch
    \/ \E i \in 1..Len(searchCall.queries) : SearchSettles(i) \/ SearchTimeout(i)
    \/ SearchCollects

SpecSearch == SearchInit /\ [][SearchNext]_vars

(***************************************************************************)
(* Claims about the search tool, under SpecSearch                          *)
(***************************************************************************)
\* The indices of the queries whose search was rejected or timed out.
FailedQueries == {i \in 1..Len(searchCall.results) : searchCall.results[i].status # "fulfilled"}

\* The report has one section per query, in input order; a fulfilled search
\* fills its section, a failed or timed out one leaves it empty and has one
\* error line, the lines in input order.
ReportPerQuery ==
    LET queries == searchCall.queries
        results == searchCall.results
    IN /\ searchReturn.status = "resolved" /\ ~searchReturn.failed
       /\ Len(searchReturn.sections) = Len(queries)
       /\ Len(results) = Len(queries)
       /\ \A i \in 1..Len(queries) :
             /\ searchReturn.sections[i].query = queries[i]
             /\ Len(searchReturn.sections[i].results)
                   = IF i \in FailedQueries THEN 0 ELSE Len(ResultsOf(results[i].value))
             /\ \A k \in 1..Len(searchReturn.sections[i].results) :
                   searchReturn.sections[i].results[k].title = ResultsOf(results[i].value)[k]
       /\ Len(searchReturn.errors) = Cardinality(FailedQueries)
       /\ \A i \in FailedQueries :
             LET k == Cardinality({j \in FailedQueries : j <= i}) IN
             /\ searchReturn.errors[k].query = queries[i]
             /\ searchReturn.errors[k].reason = results[i].reason

\* C15 as claimed: every non-empty list of non-empty queries gets its report.
C15_ReportForNonEmptyQueries ==
    (/\ searchCall.pc = "done"
     /\ searchCall.queries # <<>>
     /\ \A i \in 1..Len(searchCall.queries) : searchCall.queries[i] # <<>>)
        => ReportPerQuery

\* C15 amended: every non-empty list of queries that are not blank gets its
\* report once a session token has been resolved, however the searches end.
C15_ReportOnceStarted ==
    (/\ searchCall.pc = "done"
     /\ searchCall.queries # <<>>
     /\ \A i \in 1..Len(searchCall.queries) : Trim(searchCall.queries[i]) # <<>>
     /\ Truthy(searchCall.token))
        => ReportPerQuery

\* The first query timed out although its search answered later, the second
\* was answered in time: both sections are there, with one error line.
C15_Witness ==
    /\ searchCall.pc = "done"
    /\ Len(searchCall.queries) = 2
    /\ Len(searchCall.results) = 2
    /\ searchCall.results[1] = RejectedWith(<<"Search timeout">>)
    /\ searchCall.searches[1] = Fulfilled(ResponseWith(<<"t1">>))
    /\ searchCall.results[2] = Fulfilled(ResponseWith(<<"t1", "t2">>))
    /\ Len(searchReturn.sections) = 2
    /\ searchReturn.sections[1].results = <<>>
    /\ Len(searchReturn.sections[2].results) = 2
    /\ Len(searchReturn.errors) = 1

(***************************************************************************)
(* Further claims about the exchange, under Spec                           *)
(***************************************************************************)
\* The thread document as the call extracts and parses it: [ok, val].
ExtractedThreadDoc(responseText) ==
    LET threadJson == extractJson(responseText, THREAD_MARKER)
        threadData == JsonParse(threadJson.json)
    IN [ok |-> threadJson.found /\ threadData.ok,
        val |-> IF threadJson.found /\ threadData.ok THEN threadData.val ELSE JsUndefined]
ExtractedThreadDocs == [t \in ResponseTexts |-> ExtractedThreadDoc(t)]

\* C16 as claimed: once the extracted thread document has parsed, the session
\* is that document's id and no identifier of an earlier exchange is left.
C16_ParsedDocAdvances ==
    (last.hasText /\ ExtractedThreadDocs[last.text].ok)
        => LET id == GetProp(ExtractedThreadDocs[last.text].val, "id") IN
           \/ threadId = id
           \/ ~Truthy(id) /\ ~Truthy(threadId)

\* C16 amended: a parsed thread document advances the session to its id when
\* it has a non-empty one, and leaves the session as it was when it has none.
C16_ParsedDocWithIdAdvances ==
    [][\A c \in Callers :
        (Processes(c) /\ ExtractedThreadDocs[last'.text].ok)
            => LET id == GetProp(ExtractedThreadDocs[last'.text].val, "id") IN
               threadId' = IF Truthy(id) THEN id ELSE threadId]_vars

\* A continuation on "abc" was answered with a thread document without id:
\* the session still holds "abc".
C16_Witness ==
    /\ last.hasText
    /\ ExtractedThreadDocs[last.text].ok
    /\ GetProp(ExtractedThreadDocs[last.text].val, "id") = JsUndefined
    /\ threadId = JsStr(<<"abc">>)

\* Caller c calls kagiAssistant and the call ends before it sends anything.
FailsEarly(c) ==
    /\ calls[c].pc = "idle" /\ last.status = "none"
    /\ calls' = calls
    /\ last'.status # "none"

\* C17: a call that fails in its checks leaves the session as it was and
\* sends no request; new_conversation is first read at line 255, so the
\* session is cleared only in the step that builds and sends the payload.
C17_EarlyFailureKeepsSession ==
    [][\A c \in Callers :
        /\ FailsEarly(c)
              => /\ threadId' = threadId
                 /\ ~last'.sent /\ ~last'.replied
                 /\ \A d \in Callers : calls'[d].pc = calls[d].pc
        /\ (calls[c].pc = "idle" /\ calls'[c] # calls[c] /\ threadId' # threadId)
              => /\ Builds(c)
                 /\ calls'[c].new_conversation
                 /\ threadId' = JsNull]_vars

\* A call was refused for its model while the session held "abc".
C17_Witness ==
    /\ last.status = "resolved" /\ ~last.sent
    /\ last.msg = InvalidModel(JsStr(<<"c">>), <<<<"a">>, <<"b">>>>)
    /\ threadId = JsStr(<<"abc">>)
    /\ \A c \in Callers : calls[c].pc = "idle"

====
